---- MODULE Spec2Model ----
(***************************************************************************)
(* PngMetaWebStrip: the chunk filter of go-png-meta-web-strip.             *)
(*                                                                         *)
(* A byte is an integer in 0..255 and a byte slice is a sequence of bytes. *)
(* A uint32 is the pair <<high 16 bits, low 16 bits>>, so that every value *)
(* of the type, 0xFFFFFFFF included, is a value of the model.              *)
(***************************************************************************)
EXTENDS Integers, Sequences, FiniteSets, TLC

\* Bounds of the checked inputs.
MaxChunks == 2
MaxPayload == 1

(***************************************************************************)
(* Chunk types, as the four ASCII bytes of their names.                    *)
(***************************************************************************)
IHDR == <<73, 72, 68, 82>>
PLTE == <<80, 76, 84, 69>>
IDAT == <<73, 68, 65, 84>>
IEND == <<73, 69, 78, 68>>
tRNS == <<116, 82, 78, 83>>
gAMA == <<103, 65, 77, 65>>
cHRM == <<99, 72, 82, 77>>
sRGB == <<115, 82, 71, 66>>
iCCP == <<105, 67, 67, 80>>
sBIT == <<115, 66, 73, 84>>
pHYs == <<112, 72, 89, 115>>
tEXt == <<116, 69, 88, 116>>
zTXt == <<122, 84, 88, 116>>
iTXt == <<105, 84, 88, 116>>
tIME == <<116, 73, 77, 69>>
bKGD == <<98, 75, 71, 68>>
eXIf == <<101, 88, 73, 102>>
sPLT == <<115, 80, 76, 84>>
hIST == <<104, 73, 83, 84>>
\* a private chunk, a wrong-case spelling and a critical chunk outside the table
prIV == <<112, 114, 73, 86>>
ihdr == <<105, 104, 100, 114>>
IDOT == <<73, 68, 79, 84>>
\* strings of the unit tests that are not four bytes long
unknown == <<117, 110, 107, 110, 111, 119, 110>>
emptyType == <<>>

(***************************************************************************)
(* Bit operations and big-endian integers.                                 *)
(***************************************************************************)
\* a ^ b on 4-bit values
NibbleXor ==
    <<<<0, 1, 2, 3, 4, 5, 6, 7, 8, 9, 10, 11, 12, 13, 14, 15>>,
      <<1, 0, 3, 2, 5, 4, 7, 6, 9, 8, 11, 10, 13, 12, 15, 14>>,
      <<2, 3, 0, 1, 6, 7, 4, 5, 10, 11, 8, 9, 14, 15, 12, 13>>,
      <<3, 2, 1, 0, 7, 6, 5, 4, 11, 10, 9, 8, 15, 14, 13, 12>>,
      <<4, 5, 6, 7, 0, 1, 2, 3, 12, 13, 14, 15, 8, 9, 10, 11>>,
      <<5, 4, 7, 6, 1, 0, 3, 2, 13, 12, 15, 14, 9, 8, 11, 10>>,
      <<6, 7, 4, 5, 2, 3, 0, 1, 14, 15, 12, 13, 10, 11, 8, 9>>,
      <<7, 6, 5, 4, 3, 2, 1, 0, 15, 14, 13, 12, 11, 10, 9, 8>>,
      <<8, 9, 10, 11, 12, 13, 14, 15, 0, 1, 2, 3, 4, 5, 6, 7>>,
      <<9, 8, 11, 10, 13, 12, 15, 14, 1, 0, 3, 2, 5, 4, 7, 6>>,
      <<10, 11, 8, 9, 14, 15, 12, 13, 2, 3, 0, 1, 6, 7, 4, 5>>,
      <<11, 10, 9, 8, 15, 14, 13, 12, 3, 2, 1, 0, 7, 6, 5, 4>>,
      <<12, 13, 14, 15, 8, 9, 10, 11, 4, 5, 6, 7, 0, 1, 2, 3>>,
      <<13, 12, 15, 14, 9, 8, 11, 10, 5, 4, 7, 6, 1, 0, 3, 2>>,
      <<14, 15, 12, 13, 10, 11, 8, 9, 6, 7, 4, 5, 2, 3, 0, 1>>,
      <<15, 14, 13, 12, 11, 10, 9, 8, 7, 6, 5, 4, 3, 2, 1, 0>>>>

\* a ^ b on bytes
Xor8(a, b) ==
    NibbleXor[(a \div 16) + 1][(b \div 16) + 1] * 16
        + NibbleXor[(a % 16) + 1][(b % 16) + 1]

\* a ^ b on 16-bit values
Xor16(a, b) == Xor8(a \div 256, b \div 256) * 256 + Xor8(a % 256, b % 256)

\* a ^ b on uint32
Xor32(x, y) == <<Xor16(x[1], y[1]), Xor16(x[2], y[2])>>

\* x >> 8 on uint32
Shr8(x) == <<x[1] \div 256, (x[2] \div 256) + (x[1] % 256) * 256>>

\* Go's s[lo:hi]
Slice(s, lo, hi) == SubSeq(s, lo + 1, hi)

\* binary.BigEndian.Uint32(b)
BigEndianUint32(b) == <<b[1] * 256 + b[2], b[3] * 256 + b[4]>>

\* the four bytes binary.Write(buf, binary.BigEndian, x) appends for a uint32 x
BigEndianBytes(x) == <<x[1] \div 256, x[1] % 256, x[2] \div 256, x[2] % 256>>

(***************************************************************************)
(* hash/crc32: the IEEE polynomial 0xEDB88320, table driven.               *)
(***************************************************************************)
IEEETable ==
    <<
    <<0, 0>>, <<30471, 12438>>, <<60942, 24876>>, <<39177, 20922>>,
    <<1901, 50201>>, <<28778, 62607>>, <<59747, 42293>>, <<40548, 38307>>,
    <<3803, 34866>>, <<31196, 47268>>, <<57557, 59678>>, <<38866, 55688>>,
    <<2486, 19499>>, <<32433, 31933>>, <<59320, 11527>>, <<37055, 7569>>,
    <<7607, 4196>>, <<27312, 8434>>, <<62393, 29000>>, <<33982, 16862>>,
    <<6874, 54397>>, <<28125, 58603>>, <<62676, 46417>>, <<33747, 34247>>,
    <<4972, 38998>>, <<25707, 43200>>, <<64866, 63866>>, <<35429, 51692>>,
    <<5121, 23631>>, <<25350, 27865>>, <<64015, 15715>>, <<36104, 3573>>,
    <<15214, 8392>>, <<19561, 4190>>, <<54624, 16868>>, <<41575, 29042>>,
    <<15363, 58577>>, <<19204, 54343>>, <<53773, 34301>>, <<42250, 46443>>,
    <<13749, 43258>>, <<17074, 39020>>, <<56251, 51670>>, <<44220, 63808>>,
    <<13016, 27875>>, <<17887, 23669>>, <<56534, 3535>>, <<43985, 15705>>,
    <<9945, 12460>>, <<20958, 58>>, <<51415, 20864>>, <<49104, 24854>>,
    <<8628, 62645>>, <<22195, 50211>>, <<53178, 38297>>, <<47293, 42255>>,
    <<10242, 47262>>, <<24325, 34824>>, <<50700, 55730>>, <<45323, 59684>>,
    <<12143, 31879>>, <<22632, 19473>>, <<49505, 7595>>, <<46694, 11581>>,
    <<30428, 16784>>, <<475, 28934>>, <<39122, 8380>>, <<61397, 4138>>,
    <<29105, 34185>>, <<1718, 46367>>, <<40895, 58533>>, <<59576, 54323>>,
    <<30727, 51618>>, <<3840, 63796>>, <<38409, 43150>>, <<57614, 38936>>,
    <<32618, 3515>>, <<2157, 15661>>, <<37220, 27799>>, <<58979, 23553>>,
    <<27499, 20980>>, <<7276, 24930>>, <<34149, 12504>>, <<62050, 78>>,
    <<27654, 38381>>, <<6913, 42363>>, <<33288, 62657>>, <<62735, 50263>>,
    <<26032, 55750>>, <<4791, 59728>>, <<35774, 47338>>, <<64697, 34940>>,
    <<25309, 7647>>, <<5594, 11593>>, <<36051, 31987>>, <<64468, 19557>>,
    <<19890, 24920>>, <<15029, 20942>>, <<41916, 116>>, <<54459, 12514>>,
    <<19167, 42305>>, <<15832, 38359>>, <<42193, 50285>>, <<54230, 62715>>,
    <<17257, 59754>>, <<13422, 55804>>, <<44391, 34886>>, <<55904, 47312>>,
    <<17412, 11635>>, <<13059, 7653>>, <<43530, 19551>>, <<56589, 31945>>,
    <<20485, 28988>>, <<9986, 16810>>, <<48651, 4112>>, <<51468, 8326>>,
    <<22376, 46373>>, <<8303, 34227>>, <<47462, 54281>>, <<52833, 58527>>,
    <<24286, 63758>>, <<10713, 51608>>, <<45264, 38946>>, <<51159, 43188>>,
    <<22963, 15639>>, <<11956, 3457>>, <<47037, 23611>>, <<49338, 27821>>,
    <<60856, 33568>>, <<39615, 46006>>, <<950, 57868>>, <<29873, 53914>>,
    <<60117, 18233>>, <<40402, 30639>>, <<1243, 9749>>, <<29660, 5763>>,
    <<58211, 2834>>, <<37988, 15236>>, <<3437, 27198>>, <<31338, 23208>>,
    <<58382, 53003>>, <<37641, 65437>>, <<2560, 44583>>, <<32007, 40625>>,
    <<61455, 37700>>, <<34568, 41938>>, <<7681, 62056>>, <<26886, 49918>>,
    <<63330, 22365>>, <<32869, 26571>>, <<6508, 13937>>, <<28267, 1767>>,
    <<65236, 7030>>, <<35283, 11232>>, <<4314, 31322>>, <<26589, 19148>>,
    <<63929, 57199>>, <<36542, 61433>>, <<6071, 48707>>, <<24752, 36565>>,
    <<54998, 41960>>, <<41425, 37758>>, <<14552, 49860>>, <<20447, 62034>>,
    <<53691, 26609>>, <<42684, 22375>>, <<16309, 1757>>, <<18610, 13899>>,
    <<55309, 11226>>, <<44810, 6988>>, <<13827, 19190>>, <<16644, 31328>>,
    <<57184, 61379>>, <<43111, 57173>>, <<12654, 36591>>, <<18025, 48761>>,
    <<52065, 45964>>, <<48230, 33562>>, <<9583, 53920>>, <<21096, 57910>>,
    <<52236, 30613>>, <<47883, 18179>>, <<8706, 5817>>, <<21765, 9775>>,
    <<50618, 15294>>, <<45757, 2856>>, <<11188, 23186>>, <<23731, 27140>>,
    <<49879, 65447>>, <<46544, 53041>>, <<11481, 40587>>, <<23518, 44573>>,
    <<39780, 49840>>, <<60515, 61990>>, <<30058, 41884>>, <<621, 37642>>,
    <<39945, 1705>>, <<60174, 13887>>, <<29191, 26501>>, <<1280, 22291>>,
    <<38335, 19074>>, <<58040, 31252>>, <<31665, 11182>>, <<3254, 6968>>,
    <<37586, 36507>>, <<58837, 48653>>, <<31964, 61367>>, <<3035, 57121>>,
    <<34515, 53972>>, <<61908, 57922>>, <<26845, 46072>>, <<8154, 33646>>,
    <<33214, 5837>>, <<63161, 9819>>, <<28592, 30689>>, <<6327, 18295>>,
    <<34824, 23270>>, <<65295, 27248>>, <<26118, 15306>>, <<4353, 2908>>,
    <<36709, 40703>>, <<63586, 44649>>, <<24939, 65491>>, <<5740, 53061>>,
    <<40970, 57976>>, <<55053, 53998>>, <<19972, 33620>>, <<14595, 46018>>,
    <<42855, 9825>>, <<53344, 5879>>, <<18793, 18253>>, <<15982, 30683>>,
    <<44753, 27210>>, <<55766, 23260>>, <<16607, 2918>>, <<14296, 15344>>,
    <<43452, 44627>>, <<57019, 40645>>, <<18354, 53119>>, <<12469, 65513>>,
    <<48573, 61980>>, <<51898, 49802>>, <<21427, 37680>>, <<9396, 41894>>,
    <<47824, 13829>>, <<52695, 1683>>, <<21726, 22313>>, <<9177, 26559>>,
    <<45926, 31278>>, <<50273, 19128>>, <<23912, 6914>>, <<10863, 11156>>,
    <<46091, 48695>>, <<49932, 36513>>, <<23045, 57115>>, <<11522, 61325>>
    >>

\* crc = IEEETable[byte(crc) ^ v] ^ (crc >> 8) for every byte v of p[i..];
\* the register is bound as a value at every byte (next), not deferred
RECURSIVE crcUpdate(_, _, _)
crcUpdate(crc, p, i) ==
    IF i > Len(p) THEN crc
    ELSE CHOOSE r \in {crcUpdate(next, p, i + 1) :
                          next \in {Xor32(IEEETable[Xor8(crc[2] % 256, p[i]) + 1],
                                          Shr8(crc))}} : TRUE

\* crc32.ChecksumIEEE(p)
ChecksumIEEE(p) == Xor32(crcUpdate(<<65535, 65535>>, p, 1), <<65535, 65535>>)

(***************************************************************************)
(* The package: policy table, statistics, errors.                          *)
(***************************************************************************)
pngSignature == <<137, 80, 78, 71, 13, 10, 26, 10>>

\* mutant: pHYs left out of the table
essentialChunks_NoPHYs ==
    [t \in {IHDR, PLTE, IDAT, IEND, tRNS, gAMA, cHRM, sRGB, iCCP, sBIT} |-> TRUE]

\* map[string]bool: the keys present, each mapped to true
essentialChunks ==
    [t \in {IHDR, PLTE, IDAT, IEND, tRNS, gAMA, cHRM, sRGB, iCCP, sBIT, pHYs} |-> TRUE]

\* mutant: a type with an uppercase first letter is kept whatever the table says
shouldKeepChunk_Critical(chunkType) ==
    \/ (chunkType \in DOMAIN essentialChunks /\ essentialChunks[chunkType])
    \/ (Len(chunkType) > 0 /\ chunkType[1] \in 65..90)

\* a lookup of a missing key yields the zero value, false
shouldKeepChunk(chunkType) ==
    IF chunkType \in DOMAIN essentialChunks THEN essentialChunks[chunkType] ELSE FALSE

\* &Result{}
EmptyResult ==
    [TextChunks |-> 0, TimeChunk |-> 0, Background |-> 0, ExifData |-> 0,
     OtherChunks |-> 0, Total |-> 0]

\* mutant: the payload length is counted instead of the full chunk size
trackRemovedChunk_PayloadOnly(r, chunkType, size) ==
    LET t == [r EXCEPT !.Total = @ + (size - 12)] IN
    IF chunkType \in {tEXt, zTXt, iTXt} THEN [t EXCEPT !.TextChunks = @ + (size - 12)]
    ELSE IF chunkType = tIME THEN [t EXCEPT !.TimeChunk = @ + (size - 12)]
    ELSE IF chunkType = bKGD THEN [t EXCEPT !.Background = @ + (size - 12)]
    ELSE IF chunkType = eXIf THEN [t EXCEPT !.ExifData = @ + (size - 12)]
    ELSE [t EXCEPT !.OtherChunks = @ + (size - 12)]

\* mutant: a text chunk is counted under TextChunks and under OtherChunks too
trackRemovedChunk_TextFallsThrough(r, chunkType, size) ==
    LET t == [r EXCEPT !.Total = @ + size] IN
    IF chunkType \in {tEXt, zTXt, iTXt}
    THEN [t EXCEPT !.TextChunks = @ + size, !.OtherChunks = @ + size]
    ELSE IF chunkType = tIME THEN [t EXCEPT !.TimeChunk = @ + size]
    ELSE IF chunkType = bKGD THEN [t EXCEPT !.Background = @ + size]
    ELSE IF chunkType = eXIf THEN [t EXCEPT !.ExifData = @ + size]
    ELSE [t EXCEPT !.OtherChunks = @ + size]

trackRemovedChunk(r, chunkType, size) ==
    LET t == [r EXCEPT !.Total = @ + size] IN
    IF chunkType \in {tEXt, zTXt, iTXt} THEN [t EXCEPT !.TextChunks = @ + size]
    ELSE IF chunkType = tIME THEN [t EXCEPT !.TimeChunk = @ + size]
    ELSE IF chunkType = bKGD THEN [t EXCEPT !.Background = @ + size]
    ELSE IF chunkType = eXIf THEN [t EXCEPT !.ExifData = @ + size]
    ELSE [t EXCEPT !.OtherChunks = @ + size]

\* the error values of PngMetaWebStrip; chunkType and offset are the
\* arguments of the format string, <<>> and 0 when the message has none
NilError == [msg |-> "nil", chunkType |-> <<>>, offset |-> 0]
ErrTooShort == [msg |-> "data too short to be a PNG", chunkType |-> <<>>, offset |-> 0]
ErrSignature == [msg |-> "invalid PNG signature", chunkType |-> <<>>, offset |-> 0]
ErrIncomplete(off) == [msg |-> "incomplete chunk", chunkType |-> <<>>, offset |-> off]
ErrExtends(off) == [msg |-> "chunk extends beyond data", chunkType |-> <<>>, offset |-> off]
ErrCRC(t, off) == [msg |-> "invalid CRC", chunkType |-> t, offset |-> off]

\* the three returned values; a nil slice or pointer has nil = TRUE

\* the error values of the wrappers: fmt.Errorf with %w keeps the error of
\* the source or of the sink inside the new one
ErrRead(e) ==
    [msg |-> "failed to read data", chunkType |-> <<>>, offset |-> 0, wrapped |-> e]
ErrWrite(e) ==
    [msg |-> "failed to write data", chunkType |-> <<>>, offset |-> 0, wrapped |-> e]

NilBytes == [nil |-> TRUE, bytes |-> <<>>]
NilResult == [nil |-> TRUE, val |-> EmptyResult]
NoReturn == [returned |-> FALSE, output |-> NilBytes, result |-> NilResult, err |-> NilError]
ReturnError(e) == [returned |-> TRUE, output |-> NilBytes, result |-> NilResult, err |-> e]
ReturnOK(out, r) ==
    [returned |-> TRUE, output |-> [nil |-> FALSE, bytes |-> out],
     result |-> [nil |-> FALSE, val |-> r], err |-> NilError]

\* x + k on uint32, modulo 2^32
AddUint32(x, k) ==
    LET lo == x[2] + k IN <<(x[1] + (lo \div 65536)) % 65536, lo % 65536>>

\* the 32 bits of x read as a signed integer
Int32(x) ==
    IF x[1] >= 32768 THEN (x[1] - 65536) * 65536 + x[2] ELSE x[1] * 65536 + x[2]

\* k + int(length) for a small k >= 0, in an int of size bits: with 32 bits
\* the conversion and the sum wrap around, with 64 bits neither does, and
\* 2^31 - 1 stands for every sum that large, which exceeds every input length
intPlus(k, length, size) ==
    IF size = 32 THEN Int32(AddUint32(length, k))
    ELSE IF length[1] >= 32767 THEN 2147483647
    ELSE length[1] * 65536 + length[2] + k

\* Go's s[lo:hi] panics unless 0 <= lo <= hi <= cap(s); the inputs have cap = len
SliceInRange(lo, hi, n) == 0 <= lo /\ lo <= hi /\ hi <= n

(***************************************************************************)
(* Inputs: containers written chunk by chunk, and damaged copies of them.  *)
(***************************************************************************)
\* writeTestChunk: length, type, data, CRC-32 over type ++ data
writeTestChunk(chunkType, d) ==
    BigEndianBytes(<<0, Len(d)>>) \o chunkType \o d
        \o BigEndianBytes(ChecksumIEEE(chunkType \o d))

RECURSIVE writeChunks(_, _)
writeChunks(cl, i) ==
    IF i > Len(cl) THEN <<>>
    ELSE writeTestChunk(cl[i].Type, cl[i].Data) \o writeChunks(cl, i + 1)

\* createTestPNGWithChunks: the signature, then every chunk
createTestPNGWithChunks(cl) == pngSignature \o writeChunks(cl, 1)

PayloadByte(j) == (127 * j) % 256
Payload(n) == [j \in 1..n |-> PayloadByte(j)]

\* chunk i of a list carries (n + i - 1) % (MaxPayload + 1) payload bytes
ChunkList(ts, n) ==
    [i \in 1..Len(ts) |-> [Type |-> ts[i], Data |-> Payload((n + i - 1) % (MaxPayload + 1))]]

TypeSeqs(S, lo, hi) == UNION {[1..m -> S] : m \in lo..hi}

\* the chunk types of the containers: the eleven of the table, one or more
\* of every statistics bucket, a wrong-case and an unlisted critical type
InputTypes ==
    {IHDR, PLTE, IDAT, IEND, tRNS, gAMA, cHRM, sRGB, iCCP, sBIT, pHYs,
     tEXt, tIME, bKGD, eXIf, sPLT, ihdr, IDOT}

\* the types of the containers that are damaged: one kept, one dropped
DamagedTypes == {IHDR, tEXt}

NoMutation == [kind |-> "none", at |-> 0, bit |-> 0]

\* one bit of the byte at index at (0-based) inverted
FlipBit(d, at, bit) == [d EXCEPT ![at + 1] = Xor8(@, 2 ^ bit)]

\* the first at bytes
Truncate(d, at) == SubSeq(d, 1, at)

Mutate(d, m) ==
    IF m.kind = "flip" THEN FlipBit(d, m.at, m.bit)
    ELSE IF m.kind = "cut" THEN Truncate(d, m.at)
    ELSE IF m.kind = "append" THEN d \o m.raw
    ELSE IF m.kind = "flipcut" THEN Truncate(FlipBit(d, m.at, m.bit), m.cut)
    ELSE d

Mutations(n) ==
    {[kind |-> "flip", at |-> a, bit |-> b] : a \in 0..(n - 1), b \in 0..7}
        \cup {[kind |-> "cut", at |-> a, bit |-> 0] : a \in 0..(n - 1)}

ValidInputs ==
    {[chunks |-> ChunkList(ts, n), mut |-> NoMutation] :
        ts \in TypeSeqs(InputTypes, 0, MaxChunks), n \in 0..MaxPayload}

DamagedInputs ==
    UNION {{[chunks |-> cl, mut |-> m] : m \in Mutations(Len(createTestPNGWithChunks(cl)))} :
        cl \in {ChunkList(ts, n) : ts \in TypeSeqs(DamagedTypes, 1, MaxChunks), n \in 0..MaxPayload}}

\* a chunk header with an oversized declared length, its four type bytes and
\* what follows them, appended to a container
OversizedLengths ==
    {<<255, 255, 255, 255>>, <<255, 255, 255, 252>>, <<128, 0, 0, 0>>,
     <<127, 255, 255, 255>>, <<0, 1, 0, 0>>}

ForgedInputs ==
    {[chunks |-> cl,
      mut |-> [kind |-> "append", at |-> 0, bit |-> 0, raw |-> len \o t \o tail]] :
        cl \in {ChunkList(ts, 0) : ts \in TypeSeqs(DamagedTypes, 0, 1)},
        len \in OversizedLengths,
        t \in {IHDR, <<0, 0, 0, 0>>},
        tail \in {<<>>, <<1, 2, 3, 4>>}}

\* containers of two chunks damaged twice: one bit inverted in the last
\* checksum byte of the first record, and a cut inside the second record
TwiceDamagedInputs ==
    UNION {{[chunks |-> cl,
             mut |-> [kind |-> "flipcut", at |-> 19 + Len(cl[1].Data), bit |-> 0, cut |-> k]] :
               k \in (21 + Len(cl[1].Data))..(Len(createTestPNGWithChunks(cl)) - 1)} :
        cl \in {ChunkList(ts, n) : ts \in TypeSeqs(DamagedTypes, 2, 2), n \in 0..MaxPayload}}

Inputs == ValidInputs \cup DamagedInputs \cup ForgedInputs \cup TwiceDamagedInputs

\* the inputs handed to the wrappers and to calls that run side by side:
\* containers of the damaged types, as written, cut in the signature or in
\* the first chunk header, or followed by a forged chunk header
WrappedInputs ==
    {in \in Inputs :
        /\ \A i \in 1..Len(in.chunks) : in.chunks[i].Type \in DamagedTypes
        /\ in.mut.kind \in {"none", "cut", "append"}
        /\ in.mut.kind = "cut" => in.mut.at \in {4, 12}}

\* a source: the bytes it delivers, then the error that ends the stream,
\* io.EOF at the end of the data or an error of the source at any point
Sources(b) ==
    {[delivered |-> b, err |-> "EOF"]}
        \cup {[delivered |-> SubSeq(b, 1, k), err |-> "simulated read error"] :
                 k \in {0, Len(b) \div 2, Len(b)}}

\* a sink: the error its Write returns, nil or an error of the sink
Sinks == {"nil", "simulated write error"}

NoWrapper ==
    [kind |-> "none", pc |-> "NONE", source |-> [delivered |-> <<>>, err |-> "EOF"],
     input |-> <<>>, sink |-> "nil", writes |-> <<>>, ret |-> NoReturn]

\* the wrapper calls of an input: none (PngMetaWebStrip is called directly),
\* PngMetaWebStripReader on a source, PngMetaWebStripWriter on a sink
Wrappers(in, b) ==
    {NoWrapper}
        \cup (IF in \in WrappedInputs
              THEN {[NoWrapper EXCEPT !.kind = "reader", !.pc = "START", !.source = src] :
                       src \in Sources(b)}
                   \cup {[NoWrapper EXCEPT !.kind = "writer", !.pc = "START",
                                           !.input = b, !.sink = e] : e \in Sinks}
              ELSE {})

\* the sizes of int of the builds an input is run on: 64 bits, and 32 bits
\* too unless every declared length is that of a chunk as written (such
\* lengths are below 2^31, where the two sizes compute the same values)
IntSizes(in) == IF in.mut.kind = "none" THEN {64} ELSE {32, 64}

(***************************************************************************)
(* State.  Call 1 runs on the input; call 2 runs on what call 1 returned.  *)
(***************************************************************************)
Calls == {1, 2}

VARIABLES
    data,     \* data[c]: the argument of call c
    pc,       \* pc[c]: IDLE, VALIDATING_SIGNATURE, ITERATING_RECORDS, DONE, ERROR, PANIC
    offset,   \* offset[c]: the cursor of the loop
    output,   \* output[c]: the bytes.Buffer
    result,   \* result[c]: the Result under construction
    ret,      \* ret[c]: what call c returned
    chunks,   \* the chunk list the input was written from
    mut,      \* the damage done to it afterwards
    intSize,  \* the size of int of the build: 32 or 64 bits
    wrapper   \* the wrapper that makes call 1, if any: its source or its
              \* input and sink, the Writes made on the sink, what it returned

vars == <<data, pc, offset, output, result, ret, chunks, mut, intSize, wrapper>>

Init ==
    \E in \in Inputs :
        /\ chunks = in.chunks
        /\ mut = in.mut
        /\ intSize \in IntSizes(in)
        /\ LET b == Mutate(createTestPNGWithChunks(in.chunks), in.mut) IN
           /\ wrapper \in Wrappers(in, b)
           /\ data = [c \in Calls |->
                        IF c = 1 /\ wrapper.kind = "none" THEN b ELSE <<>>]
           /\ pc = [c \in Calls |->
                      IF c = 1 /\ wrapper.kind = "none" THEN "VALIDATING_SIGNATURE"
                      ELSE "IDLE"]
        /\ offset = [c \in Calls |-> 0]
        /\ output = [c \in Calls |-> <<>>]
        /\ result = [c \in Calls |-> EmptyResult]
        /\ ret = [c \in Calls |-> NoReturn]

\* return nil, nil, e
Fail(c, e) ==
    /\ pc' = [pc EXCEPT ![c] = "ERROR"]
    /\ ret' = [ret EXCEPT ![c] = ReturnError(e)]
    /\ UNCHANGED <<data, offset, output, result, chunks, mut, intSize, wrapper>>

\* mutant: only the first four bytes are compared with the signature
signatureMatches_First4(d) == Slice(d, 0, 4) = Slice(pngSignature, 0, 4)

\* line 50: bytes.Equal(data[:8], pngSignature)
signatureMatches(d) == Slice(d, 0, 8) = pngSignature

\* mutant: the Result is the one left by the first call
newResult_Reused(res) == res[1]

\* line 54: result := &Result{}
newResult(res) == EmptyResult

\* mutant: the buffer is the one the first call is writing to
newOutput_Shared(outs) == outs[1] \o pngSignature

\* lines 57-58: output := &bytes.Buffer{}; output.Write(pngSignature)
newOutput(outs) == pngSignature

\* lines 44-61: the length and signature checks, then the loop's initial state
ValidateSignature(c) ==
    /\ pc[c] = "VALIDATING_SIGNATURE"
    /\ IF Len(data[c]) < 8 THEN Fail(c, ErrTooShort)
       ELSE IF ~signatureMatches(data[c]) THEN Fail(c, ErrSignature)
       ELSE /\ pc' = [pc EXCEPT ![c] = "ITERATING_RECORDS"]
            /\ result' = [result EXCEPT ![c] = newResult(result)]
            /\ output' = [output EXCEPT ![c] = newOutput(output)]
            /\ offset' = [offset EXCEPT ![c] = 8]
            /\ UNCHANGED <<data, ret, chunks, mut, intSize, wrapper>>

\* mutant: only the four length bytes are required to be present
headerIncomplete_LengthOnly(off, n) == off + 4 > n

\* line 63: offset+8 > len(data)
headerIncomplete(off, n) == off + 8 > n

\* mutant: the loop stops as soon as no whole chunk header is left
loopCondition_HeaderFits(off, n) == off + 8 <= n

\* line 62: the loop condition
loopCondition(off, n) == off < n

\* line 68: the declared payload length of the chunk at off
chunkLength(d, off) == BigEndianUint32(Slice(d, off, off + 4))

\* mutant: the CRC is not verified at all
verifyCRC_Skipped(d, off, n) == TRUE

\* mutant: the CRC is verified only for the chunks that will be kept
verifyCRC_KeptOnly(d, off, n) ==
    \/ ~shouldKeepChunk(Slice(d, off + 4, off + 8))
    \/ BigEndianUint32(Slice(d, off + 8 + n, off + 12 + n))
           = ChecksumIEEE(Slice(d, off + 4, off + 8 + n))

\* lines 81-85: the stored CRC equals the CRC-32 of type ++ payload
verifyCRC(d, off, n) ==
    LET chunkData == Slice(d, off + 4, off + 8 + n)
        crc == BigEndianUint32(Slice(d, off + 8 + n, off + 12 + n))
        calculatedCRC == ChecksumIEEE(chunkData)
    IN crc = calculatedCRC

\* mutant: the chunk is written without its four CRC bytes
writeChunk_NoCRC(out, d, off, fullChunkSize) == out \o Slice(d, off, off + fullChunkSize - 4)

\* mutant: the chunk is written again from its parts, the CRC taken over the payload only
writeChunk_Recomputed(out, d, off, fullChunkSize) ==
    out \o Slice(d, off, off + fullChunkSize - 4)
        \o BigEndianBytes(ChecksumIEEE(Slice(d, off + 8, off + fullChunkSize - 4)))

\* mutant: the chunk is inserted right after the signature, not appended
writeChunk_Prepend(out, d, off, fullChunkSize) ==
    Slice(out, 0, 8) \o Slice(d, off, off + fullChunkSize) \o Slice(out, 8, Len(out))

\* mutant: the chunk is written to the buffer twice
writeChunk_Twice(out, d, off, fullChunkSize) ==
    out \o Slice(d, off, off + fullChunkSize) \o Slice(d, off, off + fullChunkSize)

\* mutant: the chunk is written without its four length bytes
writeChunk_NoLength(out, d, off, fullChunkSize) ==
    out \o Slice(d, off + 4, off + fullChunkSize)

\* line 92: output.Write(data[offset : offset+fullChunkSize])
writeChunk(out, d, off, fullChunkSize) == out \o Slice(d, off, off + fullChunkSize)

\* offset+12+int(length) > len(data)
ExtendsBeyond(off, length, n) == intPlus(off + 12, length, intSize) > n

\* a slice expression is out of range: the call panics and returns nothing
Panic(c) ==
    /\ pc' = [pc EXCEPT ![c] = "PANIC"]
    /\ UNCHANGED <<data, offset, output, result, ret, chunks, mut, intSize, wrapper>>

\* lines 62-99: one iteration of the loop
ProcessChunk(c) ==
    /\ pc[c] = "ITERATING_RECORDS"
    /\ loopCondition(offset[c], Len(data[c]))
    /\ LET d == data[c]
           off == offset[c]
       IN
       IF headerIncomplete(off, Len(d)) THEN Fail(c, ErrIncomplete(off))
       ELSE
         LET length == chunkLength(d, off) IN
         IF ExtendsBeyond(off, length, Len(d)) THEN Fail(c, ErrExtends(off))
         ELSE
           LET n == intPlus(0, length, intSize)
               chunkType == Slice(d, off + 4, off + 8)
               fullChunkSize == 12 + n
           IN
           IF ~SliceInRange(off + 4, intPlus(off + 8, length, intSize), Len(d))
           THEN Panic(c)
           ELSE IF ~verifyCRC(d, off, n) THEN Fail(c, ErrCRC(chunkType, off))
           ELSE
             /\ IF shouldKeepChunk(chunkType)
                THEN /\ output' = [output EXCEPT ![c] = writeChunk(@, d, off, fullChunkSize)]
                     /\ UNCHANGED result
                ELSE /\ result' = [result EXCEPT ![c] = trackRemovedChunk(@, chunkType, fullChunkSize)]
                     /\ UNCHANGED output
             /\ offset' = [offset EXCEPT ![c] = off + fullChunkSize]
             /\ UNCHANGED <<data, pc, ret, chunks, mut, intSize, wrapper>>

\* mutant: the kept chunks are moved to the front of the input itself
Return_InPlace(c) ==
    /\ pc[c] = "ITERATING_RECORDS"
    /\ ~loopCondition(offset[c], Len(data[c]))
    /\ pc' = [pc EXCEPT ![c] = "DONE"]
    /\ ret' = [ret EXCEPT ![c] = ReturnOK(output[c], result[c])]
    /\ data' = [data EXCEPT ![c] = output[c] \o Slice(@, Len(output[c]), Len(@))]
    /\ UNCHANGED <<offset, output, result, chunks, mut, intSize, wrapper>>

\* mutant: a container without any kept record is refused
Return_RequiresRecords(c) ==
    /\ pc[c] = "ITERATING_RECORDS"
    /\ ~loopCondition(offset[c], Len(data[c]))
    /\ IF Len(output[c]) = 8 THEN Fail(c, ErrIncomplete(offset[c]))
       ELSE /\ pc' = [pc EXCEPT ![c] = "DONE"]
            /\ ret' = [ret EXCEPT ![c] = ReturnOK(output[c], result[c])]
            /\ UNCHANGED <<data, offset, output, result, chunks, mut, intSize, wrapper>>

\* line 101: the loop is over, return output.Bytes(), result, nil
Return(c) ==
    /\ pc[c] = "ITERATING_RECORDS"
    /\ ~loopCondition(offset[c], Len(data[c]))
    /\ pc' = [pc EXCEPT ![c] = "DONE"]
    /\ ret' = [ret EXCEPT ![c] = ReturnOK(output[c], result[c])]
    /\ UNCHANGED <<data, offset, output, result, chunks, mut, intSize, wrapper>>

\* the caller passes the output of call 1 to a second call
Restrip ==
    /\ pc[1] = "DONE"
    /\ pc[2] = "IDLE"
    /\ data' = [data EXCEPT ![2] = ret[1].output.bytes]
    /\ pc' = [pc EXCEPT ![2] = "VALIDATING_SIGNATURE"]
    /\ UNCHANGED <<offset, output, result, ret, chunks, mut, intSize, wrapper>>

\* lines 43-102 as a function of the input bytes and of the size of int:
\* the loop from offset off with the buffer out and the Result res
RECURSIVE stripFrom(_, _, _, _, _)
stripFrom(d, off, out, res, size) ==
    IF ~loopCondition(off, Len(d)) THEN ReturnOK(out, res)
    ELSE IF headerIncomplete(off, Len(d)) THEN ReturnError(ErrIncomplete(off))
    ELSE LET length == chunkLength(d, off)
             n == intPlus(0, length, size)
             chunkType == Slice(d, off + 4, off + 8)
             fullChunkSize == 12 + n
         IN
         IF intPlus(off + 12, length, size) > Len(d) THEN ReturnError(ErrExtends(off))
         ELSE IF ~SliceInRange(off + 4, intPlus(off + 8, length, size), Len(d))
         THEN NoReturn
         ELSE IF ~verifyCRC(d, off, n) THEN ReturnError(ErrCRC(chunkType, off))
         ELSE IF shouldKeepChunk(chunkType)
         THEN stripFrom(d, off + fullChunkSize,
                        writeChunk(out, d, off, fullChunkSize), res, size)
         ELSE stripFrom(d, off + fullChunkSize, out,
                        trackRemovedChunk(res, chunkType, fullChunkSize), size)

\* NoReturn stands for the panic: the call returns nothing
PngMetaWebStrip(d, size) ==
    IF Len(d) < 8 THEN ReturnError(ErrTooShort)
    ELSE IF ~signatureMatches(d) THEN ReturnError(ErrSignature)
    ELSE stripFrom(d, 8, pngSignature, EmptyResult, size)

\* mutant: an error of the source is dropped, the bytes read so far are used
readAll_IgnoresError(src) == [data |-> src.delivered, err |-> "nil"]

\* line 129: io.ReadAll(r) returns the bytes read and the error of the
\* source, nil when the stream ended with io.EOF
readAll(src) ==
    [data |-> src.delivered, err |-> IF src.err = "EOF" THEN "nil" ELSE src.err]

\* lines 129-134: PngMetaWebStripReader reads the source to its end, then
\* returns the error or calls PngMetaWebStrip
ReaderStart ==
    /\ wrapper.kind = "reader"
    /\ wrapper.pc = "START"
    /\ LET r == readAll(wrapper.source) IN
       IF r.err # "nil"
       THEN /\ wrapper' = [wrapper EXCEPT !.pc = "RETURNED",
                                          !.ret = ReturnError(ErrRead(r.err))]
            /\ UNCHANGED <<data, pc>>
       ELSE /\ wrapper' = [wrapper EXCEPT !.pc = "STRIPPING"]
            /\ data' = [data EXCEPT ![1] = r.data]
            /\ pc' = [pc EXCEPT ![1] = "VALIDATING_SIGNATURE"]
    /\ UNCHANGED <<offset, output, result, ret, chunks, mut, intSize>>

\* line 134: return PngMetaWebStrip(data); a panic of the call unwinds the wrapper
ReaderReturn ==
    /\ wrapper.kind = "reader"
    /\ wrapper.pc = "STRIPPING"
    /\ pc[1] \in {"DONE", "ERROR", "PANIC"}
    /\ wrapper' = IF pc[1] = "PANIC" THEN [wrapper EXCEPT !.pc = "PANIC"]
                  ELSE [wrapper EXCEPT !.pc = "RETURNED", !.ret = ret[1]]
    /\ UNCHANGED <<data, pc, offset, output, result, ret, chunks, mut, intSize>>

\* line 139: PngMetaWebStripWriter calls PngMetaWebStrip on its input
WriterStart ==
    /\ wrapper.kind = "writer"
    /\ wrapper.pc = "START"
    /\ wrapper' = [wrapper EXCEPT !.pc = "STRIPPING"]
    /\ data' = [data EXCEPT ![1] = wrapper.input]
    /\ pc' = [pc EXCEPT ![1] = "VALIDATING_SIGNATURE"]
    /\ UNCHANGED <<offset, output, result, ret, chunks, mut, intSize>>

\* mutant: the output is written in two Writes, the signature and the rest
sinkWrite_Twice(writes, cleaned) ==
    writes \o <<Slice(cleaned, 0, 8), Slice(cleaned, 8, Len(cleaned))>>

\* line 144: w.Write(cleaned)
sinkWrite(writes, cleaned) == Append(writes, cleaned)

\* mutant: the statistics are returned together with the error of the sink
writeFailed_WithResult(res, e) ==
    [returned |-> TRUE, output |-> NilBytes, result |-> res, err |-> ErrWrite(e)]

\* lines 145-147: return nil, fmt.Errorf("failed to write data: %w", err)
writeFailed(res, e) == ReturnError(ErrWrite(e))

\* lines 140-149: the rest of PngMetaWebStripWriter, once the call is over
WriterFinish ==
    /\ wrapper.kind = "writer"
    /\ wrapper.pc = "STRIPPING"
    /\ pc[1] \in {"DONE", "ERROR", "PANIC"}
    /\ wrapper' =
           IF pc[1] = "PANIC" THEN [wrapper EXCEPT !.pc = "PANIC"]
           ELSE IF ret[1].err # NilError
           THEN [wrapper EXCEPT !.pc = "RETURNED", !.ret = ReturnError(ret[1].err)]
           ELSE LET written == sinkWrite(wrapper.writes, ret[1].output.bytes) IN
                IF wrapper.sink # "nil"
                THEN [wrapper EXCEPT !.pc = "RETURNED", !.writes = written,
                                     !.ret = writeFailed(ret[1].result, wrapper.sink)]
                ELSE [wrapper EXCEPT !.pc = "RETURNED", !.writes = written,
                                     !.ret = [returned |-> TRUE, output |-> NilBytes,
                                              result |-> ret[1].result,
                                              err |-> NilError]]
    /\ UNCHANGED <<data, pc, offset, output, result, ret, chunks, mut, intSize>>

Next ==
    \/ \E c \in Calls : ValidateSignature(c)
    \/ \E c \in Calls : ProcessChunk(c)
    \/ \E c \in Calls : Return(c)
    \/ Restrip
    \/ ReaderStart
    \/ ReaderReturn
    \/ WriterStart
    \/ WriterFinish

Spec == Init /\ [][Next]_vars

\* Two calls of PngMetaWebStrip on inputs of their own, made by two
\* goroutines: the steps of the calls interleave in every order, one call
\* after the other included.
ConcurrentInputs ==
    {in \in WrappedInputs :
        /\ in.chunks \in {ChunkList(ts, 0) : ts \in TypeSeqs(DamagedTypes, 0, 2)}
        /\ in.mut.kind = "cut" => in.mut.at = 12
        /\ in.mut.kind = "append" =>
               /\ in.chunks = <<>>
               /\ Len(in.mut.raw) = IF in.mut.raw[5] = 0 THEN 8 ELSE 12}

InitConcurrent ==
    \E in \in [Calls -> ConcurrentInputs] :
        /\ chunks = in[1].chunks
        /\ mut = in[1].mut
        /\ intSize \in {32, 64}
        /\ wrapper = NoWrapper
        /\ data = [c \in Calls |-> Mutate(createTestPNGWithChunks(in[c].chunks), in[c].mut)]
        /\ pc = [c \in Calls |-> "VALIDATING_SIGNATURE"]
        /\ offset = [c \in Calls |-> 0]
        /\ output = [c \in Calls |-> <<>>]
        /\ result = [c \in Calls |-> EmptyResult]
        /\ ret = [c \in Calls |-> NoReturn]

NextConcurrent ==
    \/ \E c \in Calls : ValidateSignature(c)
    \/ \E c \in Calls : ProcessChunk(c)
    \/ \E c \in Calls : Return(c)

SpecConcurrent == InitConcurrent /\ [][NextConcurrent]_vars

\* A call that was started runs on: it is straight-line code in its own
\* goroutine, which is scheduled as long as it can take a step.
Fairness ==
    \A c \in Calls : WF_vars(ValidateSignature(c) \/ ProcessChunk(c) \/ Return(c))

SpecFair == SpecConcurrent /\ Fairness

(***************************************************************************)
(* Properties.                                                             *)
(***************************************************************************)
\* the eleven types of the preserve set
PreserveSet == {IHDR, PLTE, IDAT, IEND, tRNS, gAMA, cHRM, sRGB, iCCP, sBIT, pHYs}

Terminated(c) == pc[c] \in {"DONE", "ERROR"}

\* the input of call 1 is the container as written, undamaged
Undamaged == mut.kind = "none"

\* the on-wire size of a chunk of the list, and the offset at which chunk k starts
RecordSize(ch) == 12 + Len(ch.Data)

RECURSIVE RecordOffset(_, _)
RecordOffset(cl, k) ==
    IF k = 1 THEN 8 ELSE RecordOffset(cl, k - 1) + RecordSize(cl[k - 1])

\* the records of a well-formed container, each as its 12+length bytes
RECURSIVE RecordsOf(_, _)
RecordsOf(d, off) ==
    IF off + 12 > Len(d) THEN <<>>
    ELSE LET size == 12 + d[off + 3] * 256 + d[off + 4]
         IN <<Slice(d, off, off + size)>> \o RecordsOf(d, off + size)

TypeOfRecord(r) == Slice(r, 4, 8)
IsPreserved(r) == TypeOfRecord(r) \in PreserveSet

\* C1: whenever a call succeeds, the length of the returned output plus the
\* returned Total equals the length of its input.
C1_Conservation ==
    \A c \in Calls :
        pc[c] = "DONE" =>
            Len(ret[c].output.bytes) + ret[c].result.val.Total = Len(data[c])

\* a call has succeeded after both keeping and dropping chunks
C1_Witness ==
    /\ pc[1] = "DONE"
    /\ ret[1].result.val.Total > 0
    /\ Len(ret[1].output.bytes) > 8

\* C2: when the output of a successful call is passed to a second call, the
\* second call succeeds, returns that output byte for byte, and reports
\* Total = 0 and every bucket 0.
C2_Idempotence ==
    Terminated(2) =>
        /\ pc[2] = "DONE"
        /\ ret[2].err = NilError
        /\ ret[2].output.bytes = ret[1].output.bytes
        /\ ret[2].result.val = EmptyResult

\* the second call has finished on an output from which the first call removed chunks
C2_Witness ==
    /\ pc[2] = "DONE"
    /\ ret[1].result.val.Total > 0
    /\ Len(ret[1].output.bytes) > 8

\* C3: on a valid container all of whose records have a type of the preserve
\* set, the call succeeds with output equal to the input and Total = 0.
C3_IdentityOnPreserveOnly ==
    (/\ Undamaged
     /\ \A i \in 1..Len(chunks) : chunks[i].Type \in PreserveSet
     /\ Terminated(1))
        => /\ pc[1] = "DONE"
           /\ ret[1].output.bytes = data[1]
           /\ ret[1].result.val.Total = 0

\* a call has finished on a container of two or more preserve-set records, pHYs among them
C3_Witness ==
    /\ Undamaged
    /\ pc[1] = "DONE"
    /\ Len(chunks) >= 2
    /\ \A i \in 1..Len(chunks) : chunks[i].Type \in PreserveSet
    /\ \E i \in 1..Len(chunks) : chunks[i].Type = pHYs

\* C4: every record of a valid input whose type is in the preserve set is in
\* the output of a successful call, all its 12+length bytes (length, type,
\* payload, stored checksum) identical to the input's.
C4_PreserveSetExhaustive ==
    (Undamaged /\ pc[1] = "DONE") =>
        \A i \in 1..Len(chunks) :
            chunks[i].Type \in PreserveSet =>
                LET rec == Slice(data[1], RecordOffset(chunks, i),
                                 RecordOffset(chunks, i) + RecordSize(chunks[i]))
                    out == ret[1].output.bytes
                IN /\ rec = writeTestChunk(chunks[i].Type, chunks[i].Data)
                   /\ \E pos \in 8..(Len(out) - Len(rec)) :
                          Slice(out, pos, pos + Len(rec)) = rec

\* a call has succeeded on a container with a kept record that carries a payload
C4_Witness ==
    /\ Undamaged
    /\ pc[1] = "DONE"
    /\ \E i \in 1..Len(chunks) :
           chunks[i].Type \in PreserveSet /\ Len(chunks[i].Data) > 0

\* C5: the output of a successful call starts with the signature, and its
\* record sequence is the subsequence of the input's record sequence selected
\* by the preserve set, in the input's order.
C5_OrderPreserved ==
    \A c \in Calls :
        pc[c] = "DONE" =>
            /\ Slice(ret[c].output.bytes, 0, 8) = pngSignature
            /\ RecordsOf(ret[c].output.bytes, 8)
                   = SelectSeq(RecordsOf(data[c], 8), IsPreserved)

\* a call has succeeded on a container with two different kept records
C5_Witness ==
    /\ pc[1] = "DONE"
    /\ Len(RecordsOf(ret[1].output.bytes, 8)) >= 2
    /\ RecordsOf(ret[1].output.bytes, 8)[1] # RecordsOf(ret[1].output.bytes, 8)[2]

\* the strings shouldKeepChunk is tried on
TypeUniverse == InputTypes \cup {zTXt, iTXt, hIST, prIV, unknown, emptyType}

C7_CriticalChunksKept ==
    (Undamaged /\ pc[1] = "DONE") =>
        \A i \in 1..Len(chunks) :
            chunks[i].Type[1] \in 65..90 =>
                LET rec == writeTestChunk(chunks[i].Type, chunks[i].Data)
                    out == ret[1].output.bytes
                IN \E pos \in 8..(Len(out) - Len(rec)) :
                       Slice(out, pos, pos + Len(rec)) = rec

\* the record of the damaged container that holds the byte at index pos, and
\* the field of that record the byte belongs to
RecordIndexAt(cl, pos) ==
    CHOOSE k \in 1..Len(cl) :
        RecordOffset(cl, k) <= pos /\ pos < RecordOffset(cl, k) + RecordSize(cl[k])

FieldAt(cl, pos) ==
    LET rel == pos - RecordOffset(cl, RecordIndexAt(cl, pos)) IN
    IF rel < 4 THEN "length"
    ELSE IF rel < 8 THEN "type"
    ELSE IF rel < 8 + Len(cl[RecordIndexAt(cl, pos)].Data) THEN "payload"
    ELSE "checksum"

\* call c stands at a record that lies within the input and whose stored
\* checksum is not the CRC-32 of its type ++ payload
BadChecksumAt(c) ==
    LET d == data[c]
        off == offset[c]
    IN /\ pc[c] = "ITERATING_RECORDS"
       /\ off + 8 <= Len(d)
       /\ d[off + 1] = 0 /\ d[off + 2] = 0
       /\ off + 12 + d[off + 3] * 256 + d[off + 4] <= Len(d)
       /\ LET n == d[off + 3] * 256 + d[off + 4] IN
          Slice(d, off + 8 + n, off + 12 + n)
              # BigEndianBytes(ChecksumIEEE(Slice(d, off + 4, off + 8 + n)))

Moved(c) ==
    <<pc[c], offset[c], output[c], result[c], ret[c]>>
        # <<pc'[c], offset'[c], output'[c], result'[c], ret'[c]>>

\* C8: a call that reaches a record whose stored checksum differs from the
\* CRC-32 of type ++ payload fails at once with the invalid CRC error naming
\* that record's type and offset, whether the type is kept or dropped, and
\* a failed call processes nothing further.
C8_StrictIntegrity ==
    [][\A c \in Calls :
         /\ (BadChecksumAt(c) /\ Moved(c)) =>
                /\ pc'[c] = "ERROR"
                /\ ret'[c] = [returned |-> TRUE,
                              output |-> [nil |-> TRUE, bytes |-> <<>>],
                              result |-> [nil |-> TRUE, val |-> EmptyResult],
                              err |-> [msg |-> "invalid CRC",
                                       chunkType |-> Slice(data[c], offset[c] + 4, offset[c] + 8),
                                       offset |-> offset[c]]]
                /\ offset'[c] = offset[c]
                /\ output'[c] = output[c]
                /\ result'[c] = result[c]
         /\ pc[c] = "ERROR" => ~Moved(c)]_vars

\* a call has failed with invalid CRC on the second record, a dropped type
\* whose stored checksum had one bit inverted
C8_Witness ==
    /\ mut.kind = "flip"
    /\ mut.at >= 8
    /\ FieldAt(chunks, mut.at) = "checksum"
    /\ RecordIndexAt(chunks, mut.at) = 2
    /\ chunks[2].Type = tEXt
    /\ pc[1] = "ERROR"
    /\ ret[1].err.msg = "invalid CRC"
    /\ ret[1].err.chunkType = tEXt
    /\ ret[1].err.offset = RecordOffset(chunks, 2)

\* C9: a valid container with one bit inverted inside a record's type or
\* payload, the stored checksum left as it was, is never accepted: the call
\* returns the invalid CRC error.
C9_ChecksumEnforced ==
    (/\ mut.kind = "flip"
     /\ mut.at >= 8
     /\ FieldAt(chunks, mut.at) \in {"type", "payload"}
     /\ Terminated(1))
        => /\ pc[1] = "ERROR"
           /\ ret[1].err.msg = "invalid CRC"
           /\ ret[1].output.nil /\ ret[1].result.nil

\* a call has failed on a container with a bit inverted in the payload of a dropped record
C9_Witness ==
    /\ mut.kind = "flip"
    /\ mut.at >= 8
    /\ FieldAt(chunks, mut.at) = "payload"
    /\ chunks[RecordIndexAt(chunks, mut.at)].Type = tEXt
    /\ pc[1] = "ERROR"

\* the input is a valid container cut strictly inside a record: at least the
\* record's first byte is left and at least its last checksum byte is gone
CutInsideRecord ==
    /\ mut.kind = "cut"
    /\ mut.at > 8
    /\ RecordOffset(chunks, RecordIndexAt(chunks, mut.at)) < mut.at

\* C10: a valid container cut strictly inside a record makes the call fail,
\* with incomplete chunk when fewer than 8 bytes of the record are left and
\* with chunk extends beyond data otherwise, at that record's offset.
C10_TruncationDetected ==
    (CutInsideRecord /\ Terminated(1)) =>
        LET off == RecordOffset(chunks, RecordIndexAt(chunks, mut.at)) IN
        /\ pc[1] = "ERROR"
        /\ ret[1].output.nil /\ ret[1].result.nil
        /\ ret[1].err =
               IF mut.at - off < 8
               THEN [msg |-> "incomplete chunk", chunkType |-> <<>>, offset |-> off]
               ELSE [msg |-> "chunk extends beyond data", chunkType |-> <<>>, offset |-> off]

\* a call has failed on a container cut inside the second record, eight or
\* more bytes of it left
C10_Witness ==
    /\ CutInsideRecord
    /\ RecordIndexAt(chunks, mut.at) = 2
    /\ mut.at - RecordOffset(chunks, 2) >= 8
    /\ pc[1] = "ERROR"

\* call c stands at a record whose 8 header bytes are present and whose
\* declared length, taken as the unsigned 32-bit number it is, puts the end
\* of the record past the end of the input
OversizedAt(c) ==
    LET d == data[c]
        off == offset[c]
    IN /\ pc[c] = "ITERATING_RECORDS"
       /\ off + 8 <= Len(d)
       /\ \/ d[off + 1] > 0
          \/ d[off + 2] > 0
          \/ off + 12 + d[off + 3] * 256 + d[off + 4] > Len(d)

\* C11: an input shorter than 8 bytes fails with data too short to be a PNG,
\* an input of 8 bytes or more that does not start with 137 80 78 71 13 10
\* 26 10 fails with invalid PNG signature; the length is tested first, and
\* in both cases no record is examined and nothing is produced.
C11_SignatureRejected ==
    \A c \in Calls :
        (pc[c] \notin {"IDLE", "VALIDATING_SIGNATURE"}
            /\ (Len(data[c]) < 8
                   \/ SubSeq(data[c], 1, 8) # <<137, 80, 78, 71, 13, 10, 26, 10>>)) =>
            /\ pc[c] = "ERROR"
            /\ ret[c] = [returned |-> TRUE,
                         output |-> [nil |-> TRUE, bytes |-> <<>>],
                         result |-> [nil |-> TRUE, val |-> EmptyResult],
                         err |-> [msg |-> IF Len(data[c]) < 8
                                          THEN "data too short to be a PNG"
                                          ELSE "invalid PNG signature",
                                  chunkType |-> <<>>, offset |-> 0]]
            /\ offset[c] = 0
            /\ output[c] = <<>>
            /\ result[c] = EmptyResult

\* a call has failed on a full-length container whose signature differs from
\* the fixed one in one bit of its last four bytes only
C11_Witness ==
    /\ mut.kind = "flip"
    /\ mut.at \in 4..7
    /\ Len(data[1]) > 8
    /\ pc[1] = "ERROR"
    /\ ret[1].err.msg = "invalid PNG signature"

\* C20: a call standing at a record whose declared length puts its end past
\* the end of the input fails in that step with chunk extends beyond data at
\* that record's offset, having produced nothing, and no call ever evaluates
\* a slice of the input that is out of range.
C20_BoundsGuard ==
    [][\A c \in Calls :
         /\ (OversizedAt(c) /\ Moved(c)) =>
                /\ pc'[c] = "ERROR"
                /\ ret'[c] = [returned |-> TRUE,
                              output |-> [nil |-> TRUE, bytes |-> <<>>],
                              result |-> [nil |-> TRUE, val |-> EmptyResult],
                              err |-> [msg |-> "chunk extends beyond data",
                                       chunkType |-> <<>>,
                                       offset |-> offset[c]]]
         /\ pc'[c] # "PANIC"]_vars

\* the three ways C20 fails where int has 32 bits: the oversized record is
\* taken for a record with a wrong checksum, the call panics on a slice out
\* of range, or the call succeeds and counts the record as removed
C20_WrongError ==
    \E c \in Calls : /\ OversizedAt(c)
                     /\ pc'[c] = "ERROR"
                     /\ ret'[c].err.msg = "invalid CRC"

C20_Panics == \E c \in Calls : OversizedAt(c) /\ pc'[c] = "PANIC"

C20_Accepted ==
    \E c \in Calls : /\ OversizedAt(c)
                     /\ pc'[c] = "ITERATING_RECORDS"
                     /\ offset'[c] # offset[c]

C20_NeverWrongError == [][~C20_WrongError]_vars
C20_NeverPanics == [][~C20_Panics]_vars
C20_NeverAccepted == [][~C20_Accepted]_vars

\* with an int of 64 bits the guard of C20 holds on every input of the model
C20_BoundsGuard64 ==
    [][intSize = 64 =>
         \A c \in Calls :
             /\ (OversizedAt(c) /\ Moved(c)) =>
                    /\ pc'[c] = "ERROR"
                    /\ ret'[c].err = [msg |-> "chunk extends beyond data",
                                      chunkType |-> <<>>,
                                      offset |-> offset[c]]
             /\ pc'[c] # "PANIC"]_vars

\* call c is over: it has returned or it has panicked
Ended(c) == pc[c] \in {"DONE", "ERROR", "PANIC"}

\* what a call that is over and did not panic has returned: the whole buffer
\* and the whole Result with a nil error, or nil, nil and an error
TwoOutcomes(c) ==
    /\ ret[c].returned
    /\ \/ /\ pc[c] = "DONE"
          /\ ret[c].output = [nil |-> FALSE, bytes |-> output[c]]
          /\ ret[c].result = [nil |-> FALSE, val |-> result[c]]
          /\ ret[c].err = [msg |-> "nil", chunkType |-> <<>>, offset |-> 0]
       \/ /\ pc[c] = "ERROR"
          /\ ret[c].output = [nil |-> TRUE, bytes |-> <<>>]
          /\ ret[c].result = [nil |-> TRUE, val |-> EmptyResult]
          /\ ret[c].err.msg # "nil"

\* C12: every call that is over has returned either its output and its
\* Result with a nil error, or a nil output and a nil Result with an error;
\* a failure after records were kept or counted returns none of them.
C12_NoPartialSuccess == \A c \in Calls : Ended(c) => TwoOutcomes(c)

\* with an int of 64 bits C12 holds on every input of the model
C12_NoPartialSuccess64 ==
    intSize = 64 => \A c \in Calls : Ended(c) => TwoOutcomes(c)

\* a call has failed after it had kept a record, and returned nil, nil
C12_Witness64 ==
    /\ intSize = 64
    /\ pc[1] = "ERROR"
    /\ Len(output[1]) > 8
    /\ ret[1].output.nil

\* the bucket of a dropped type
BucketOf(t) ==
    IF t \in {tEXt, zTXt, iTXt} THEN "TextChunks"
    ELSE IF t = tIME THEN "TimeChunk"
    ELSE IF t = bKGD THEN "Background"
    ELSE IF t = eXIf THEN "ExifData"
    ELSE "OtherChunks"

\* the step of call c passes the record at the cursor, and if the record is
\* dropped the step adds 12 + length to Total and to the bucket of its type
\* and to nothing else
CountsRecord(c) ==
    LET d == data[c]
        off == offset[c]
        t == Slice(d, off + 4, off + 8)
        length == chunkLength(d, off)
        size == 12 + length[2]
    IN (pc[c] = "ITERATING_RECORDS" /\ offset'[c] # offset[c]) =>
           IF t \in PreserveSet THEN result'[c] = result[c]
           ELSE /\ length[1] = 0
                /\ result'[c] = [result[c] EXCEPT ![BucketOf(t)] = @ + size,
                                                  !.Total = @ + size]

\* C13: each dropped record adds its on-wire size 12 + length to Total and
\* to exactly one bucket, TextChunks for tEXt, zTXt and iTXt, TimeChunk for
\* tIME, Background for bKGD, ExifData for eXIf and OtherChunks for every
\* other type, and leaves the other buckets unchanged; a kept record leaves
\* the Result unchanged.
C13_BucketAccuracy == [][\A c \in Calls : CountsRecord(c)]_vars

\* with an int of 64 bits C13 holds on every input of the model, and the
\* tracking function sends every type of the universe to its bucket
C13_BucketAccuracy64 ==
    [][/\ intSize = 64 => \A c \in Calls : CountsRecord(c)
       /\ \A t \in TypeUniverse \ PreserveSet :
              trackRemovedChunk(EmptyResult, t, 12 + MaxPayload)
                  = [EmptyResult EXCEPT ![BucketOf(t)] = 12 + MaxPayload,
                                        !.Total = 12 + MaxPayload]]_vars

\* a call has dropped an eXIf record and a record of the other bucket
C13_Witness64 ==
    /\ intSize = 64
    /\ pc[1] = "DONE"
    /\ result[1].ExifData > 0
    /\ result[1].OtherChunks > 0

\* the records from off tile d exactly to its end, each with the checksum
\* of its type and payload
RECURSIVE TilesFrom(_, _)
TilesFrom(d, off) ==
    IF off = Len(d) THEN TRUE
    ELSE /\ off + 12 <= Len(d)
         /\ d[off + 1] = 0
         /\ d[off + 2] = 0
         /\ LET n == d[off + 3] * 256 + d[off + 4] IN
            /\ off + 12 + n <= Len(d)
            /\ Slice(d, off + 8 + n, off + 12 + n)
                   = BigEndianBytes(ChecksumIEEE(Slice(d, off + 4, off + 8 + n)))
            /\ TilesFrom(d, off + 12 + n)

WellFormed(d) ==
    /\ Len(d) >= 8
    /\ SubSeq(d, 1, 8) = <<137, 80, 78, 71, 13, 10, 26, 10>>
    /\ TilesFrom(d, 8)

\* C14: the output of every successful call starts with the signature and
\* is tiled exactly by records whose stored checksum is the CRC-32 of type
\* and payload, and the call made on that output does not fail.
C14_OutputValid ==
    /\ \A c \in Calls :
           (pc[c] = "DONE" /\ ret[c].returned) => WellFormed(ret[c].output.bytes)
    /\ pc[2] \notin {"ERROR", "PANIC"}

\* the second call has succeeded on an output that holds kept records, of a
\* first call that dropped records
C14_Witness ==
    /\ pc[2] = "DONE"
    /\ ret[2].returned
    /\ Len(data[2]) > 8
    /\ ret[1].result.val.Total > 0

\* C15: when the source ends with an error of its own, after none, part or
\* all of the data, PngMetaWebStripReader returns a nil output, a nil Result
\* and failed to read data wrapping that error, and PngMetaWebStrip is not
\* called on what was read.
C15_ReaderFailure ==
    (wrapper.kind = "reader" /\ wrapper.source.err # "EOF" /\ wrapper.pc # "START") =>
        /\ wrapper.pc = "RETURNED"
        /\ wrapper.ret = [returned |-> TRUE,
                          output |-> [nil |-> TRUE, bytes |-> <<>>],
                          result |-> [nil |-> TRUE, val |-> EmptyResult],
                          err |-> [msg |-> "failed to read data", chunkType |-> <<>>,
                                   offset |-> 0, wrapped |-> wrapper.source.err]]
        /\ pc[1] = "IDLE"
        /\ data[1] = <<>>
        /\ ret[1] = NoReturn

\* the reader has returned on a source that failed after it had delivered
\* the signature and more
C15_Witness ==
    /\ wrapper.kind = "reader"
    /\ wrapper.source.err = "simulated read error"
    /\ Len(wrapper.source.delivered) > 8
    /\ wrapper.pc = "RETURNED"

\* C16: PngMetaWebStripReader on a source that delivers b and ends with
\* io.EOF returns what PngMetaWebStrip(b) returns; when PngMetaWebStrip(b)
\* succeeds and the sink accepts the Write, PngMetaWebStripWriter makes one
\* Write, of the whole output, and returns the Result of PngMetaWebStrip(b)
\* with a nil error.
C16_WrapperEquivalence ==
    /\ (wrapper.kind = "reader" /\ wrapper.source.err = "EOF"
            /\ wrapper.pc \in {"RETURNED", "PANIC"}) =>
           LET r == PngMetaWebStrip(wrapper.source.delivered, intSize) IN
           IF r.returned THEN wrapper.pc = "RETURNED" /\ wrapper.ret = r
           ELSE wrapper.pc = "PANIC"
    /\ (wrapper.kind = "writer" /\ wrapper.sink = "nil"
            /\ wrapper.pc \in {"RETURNED", "PANIC"}) =>
           LET r == PngMetaWebStrip(wrapper.input, intSize) IN
           (r.returned /\ r.err = NilError) =>
               /\ wrapper.pc = "RETURNED"
               /\ wrapper.writes = <<r.output.bytes>>
               /\ wrapper.ret = [returned |-> TRUE,
                                 output |-> [nil |-> TRUE, bytes |-> <<>>],
                                 result |-> r.result,
                                 err |-> NilError]

\* the writer has returned the statistics of a call that kept a record and
\* dropped another, after one Write on a sink that accepted it
C16_Witness ==
    /\ wrapper.kind = "writer"
    /\ wrapper.sink = "nil"
    /\ wrapper.pc = "RETURNED"
    /\ Len(wrapper.writes) = 1
    /\ Len(wrapper.writes[1]) > 8
    /\ ~wrapper.ret.result.nil
    /\ wrapper.ret.result.val.Total > 0

\* C17: when PngMetaWebStrip fails, PngMetaWebStripWriter makes no Write and
\* returns a nil Result and that same error; when the Write fails, it
\* returns a nil Result and failed to write data wrapping the error of the
\* sink.
C17_WriterFailure ==
    (wrapper.kind = "writer" /\ wrapper.pc = "RETURNED") =>
        /\ pc[1] = "ERROR" =>
               /\ wrapper.writes = <<>>
               /\ wrapper.ret = [returned |-> TRUE,
                                 output |-> [nil |-> TRUE, bytes |-> <<>>],
                                 result |-> [nil |-> TRUE, val |-> EmptyResult],
                                 err |-> ret[1].err]
               /\ ret[1].err.msg # "nil"
        /\ (pc[1] = "DONE" /\ wrapper.sink # "nil") =>
               wrapper.ret = [returned |-> TRUE,
                              output |-> [nil |-> TRUE, bytes |-> <<>>],
                              result |-> [nil |-> TRUE, val |-> EmptyResult],
                              err |-> [msg |-> "failed to write data",
                                       chunkType |-> <<>>, offset |-> 0,
                                       wrapped |-> wrapper.sink]]

\* the writer has returned after a failed Write of the output of a call that
\* had counted a dropped record
C17_Witness ==
    /\ wrapper.kind = "writer"
    /\ wrapper.sink = "simulated write error"
    /\ wrapper.pc = "RETURNED"
    /\ pc[1] = "DONE"
    /\ ret[1].result.val.Total > 0

\* the writer has returned the error of a call that failed on its input
C17_WitnessStripError ==
    /\ wrapper.kind = "writer"
    /\ wrapper.pc = "RETURNED"
    /\ pc[1] = "ERROR"

\* C18: in every interleaving of the steps of two calls, a step of one call
\* changes nothing of the other call and no input, and each call that is
\* over has ended as PngMetaWebStrip ends on its input when it is the only
\* call: the same return values, or a panic where that panics.
C18_NoInterference ==
    [][/\ \A c \in Calls : Moved(c) => \A o \in Calls \ {c} : ~Moved(o)
       /\ data' = data
       /\ \A c \in Calls :
              pc'[c] \in {"DONE", "ERROR", "PANIC"} =>
                  LET r == PngMetaWebStrip(data'[c], intSize') IN
                  IF r.returned THEN pc'[c] \in {"DONE", "ERROR"} /\ ret'[c] = r
                  ELSE pc'[c] = "PANIC" /\ ret'[c] = NoReturn]_vars

\* both calls are over, one with a kept and a dropped record, the other
\* failed on its first record
C18_Witness ==
    /\ pc[1] = "DONE"
    /\ Len(output[1]) > 8
    /\ result[1].Total > 0
    /\ pc[2] = "ERROR"
    /\ offset[2] = 8

\* C19: two calls with equal inputs end alike, with equal outputs, equal
\* statistics and the same error, whether they overlap or one follows the
\* other, and every call enters its loop with an empty Result and a buffer
\* that holds the signature only.
C19_Purity ==
    /\ (Ended(1) /\ Ended(2) /\ data[1] = data[2]) =>
           pc[1] = pc[2] /\ ret[1] = ret[2]
    /\ \A c \in Calls :
           (pc[c] = "ITERATING_RECORDS" /\ offset[c] = 8) =>
               /\ result[c] = EmptyResult
               /\ output[c] = <<137, 80, 78, 71, 13, 10, 26, 10>>

\* two calls on the same container, which holds a record that is dropped,
\* have both returned its statistics
C19_Witness ==
    /\ data[1] = data[2]
    /\ pc[1] = "DONE"
    /\ pc[2] = "DONE"
    /\ ret[1].result.val.Total > 0
    /\ ret[2].result.val.Total > 0

\* C21: a call whose cursor stands where 1 to 7 bytes of input are left
\* fails in that step with incomplete chunk at that offset, and nothing of
\* those bytes is kept or counted.
C21_IncompleteHeader ==
    [][\A c \in Calls :
         (/\ pc[c] = "ITERATING_RECORDS"
          /\ Len(data[c]) - offset[c] \in 1..7
          /\ Moved(c)) =>
             /\ pc'[c] = "ERROR"
             /\ ret'[c] = [returned |-> TRUE,
                           output |-> [nil |-> TRUE, bytes |-> <<>>],
                           result |-> [nil |-> TRUE, val |-> EmptyResult],
                           err |-> [msg |-> "incomplete chunk",
                                    chunkType |-> <<>>,
                                    offset |-> offset[c]]]
             /\ offset'[c] = offset[c]
             /\ output'[c] = output[c]
             /\ result'[c] = result[c]]_vars

\* a call has failed with incomplete chunk at the second record, of which
\* the length bytes and not all the type bytes were left
C21_Witness ==
    /\ pc[1] = "ERROR"
    /\ ret[1].err.msg = "incomplete chunk"
    /\ offset[1] > 8
    /\ Len(data[1]) - offset[1] \in 4..7

\* the error of the first failing check of the first offending record of d
\* from off on, the declared lengths taken as the unsigned numbers they are:
\* the header-size check, then the bounds check, then the checksum check
RECURSIVE FirstError(_, _)
FirstError(d, off) ==
    IF off >= Len(d) THEN [msg |-> "nil", chunkType |-> <<>>, offset |-> 0]
    ELSE IF Len(d) - off < 8
    THEN [msg |-> "incomplete chunk", chunkType |-> <<>>, offset |-> off]
    ELSE IF \/ d[off + 1] > 0
            \/ d[off + 2] > 0
            \/ off + 12 + d[off + 3] * 256 + d[off + 4] > Len(d)
    THEN [msg |-> "chunk extends beyond data", chunkType |-> <<>>, offset |-> off]
    ELSE LET n == d[off + 3] * 256 + d[off + 4] IN
         IF Slice(d, off + 8 + n, off + 12 + n)
                # BigEndianBytes(ChecksumIEEE(Slice(d, off + 4, off + 8 + n)))
         THEN [msg |-> "invalid CRC", chunkType |-> Slice(d, off + 4, off + 8),
               offset |-> off]
         ELSE FirstError(d, off + 12 + n)

ReportsFirstError(c) ==
    (/\ Ended(c)
     /\ Len(data[c]) >= 8
     /\ SubSeq(data[c], 1, 8) = <<137, 80, 78, 71, 13, 10, 26, 10>>) =>
        LET e == FirstError(data[c], 8) IN
        IF e.msg = "nil" THEN pc[c] = "DONE"
        ELSE /\ pc[c] = "ERROR"
             /\ ret[c].err = e
             /\ offset[c] = e.offset

\* C27: the records are checked in input order and each record by the
\* header-size check, the bounds check and the checksum check in that
\* order; a call fails with the error of the first failing check of the
\* first offending record, at that record's offset, and succeeds when no
\* check fails.
C27_FirstErrorWins == \A c \in Calls : ReportsFirstError(c)

\* with an int of 64 bits C27 holds on every input of the model
C27_FirstErrorWins64 == intSize = 64 => \A c \in Calls : ReportsFirstError(c)

\* a call has reported the wrong checksum of the first record of a container
\* whose second record is cut
C27_Witness64 ==
    /\ intSize = 64
    /\ mut.kind = "flipcut"
    /\ pc[1] = "ERROR"
    /\ ret[1].err.msg = "invalid CRC"
    /\ ret[1].err.offset = 8

\* the steps of call c allowed by the state machine: the call is started,
\* the signature passes or fails, the loop goes on, ends or fails
AllowedStep(c) ==
    /\ pc'[c] # pc[c] =>
           <<pc[c], pc'[c]>> \in {<<"IDLE", "VALIDATING_SIGNATURE">>,
                                  <<"VALIDATING_SIGNATURE", "ITERATING_RECORDS">>,
                                  <<"VALIDATING_SIGNATURE", "ERROR">>,
                                  <<"ITERATING_RECORDS", "DONE">>,
                                  <<"ITERATING_RECORDS", "ERROR">>}
    /\ (pc[c] = "VALIDATING_SIGNATURE" /\ pc'[c] = "ITERATING_RECORDS") =>
           /\ Len(data[c]) >= 8
           /\ SubSeq(data[c], 1, 8) = <<137, 80, 78, 71, 13, 10, 26, 10>>
    /\ pc[c] \in {"DONE", "ERROR"} => ~Moved(c)
    /\ pc[c] = "IDLE" => pc'[c] \in {"IDLE", "VALIDATING_SIGNATURE"}

\* C22: a call moves from VALIDATING_SIGNATURE to ITERATING_RECORDS, only
\* when the signature check passed, and from there to DONE; ERROR is entered
\* from these two states only; a call in DONE or ERROR moves no more, so
\* DONE is never reached after a failure; there is no other state.
C22_StateMachine == [][\A c \in Calls : AllowedStep(c)]_vars

\* with an int of 64 bits C22 holds on every input of the model
C22_StateMachine64 == [][intSize = 64 => \A c \in Calls : AllowedStep(c)]_vars

\* a call has gone through the three states to DONE, and a second call has
\* been started after it
C22_Witness64 ==
    /\ intSize = 64
    /\ pc[1] = "DONE"
    /\ offset[1] > 8
    /\ pc[2] = "ERROR" \/ pc[2] = "DONE"

\* target is the first byte of a record of d, or the end of the last one,
\* walking from at over the records by their declared lengths
RECURSIVE RecordStart(_, _, _)
RecordStart(d, at, target) ==
    \/ at = target
    \/ /\ at < target
       /\ at + 8 <= Len(d)
       /\ d[at + 1] = 0
       /\ d[at + 2] = 0
       /\ RecordStart(d, at + 12 + d[at + 3] * 256 + d[at + 4], target)

Aligned(c) ==
    /\ pc[c] = "DONE" => offset[c] = Len(data[c])
    /\ pc[c] \in {"ITERATING_RECORDS", "DONE"} =>
           /\ 8 <= offset[c]
           /\ offset[c] <= Len(data[c])
           /\ RecordStart(data[c], 8, offset[c]) \/ offset[c] = Len(data[c])

\* C23: a call that succeeded has its cursor at the end of the input, and
\* at every loop head the cursor is 8 or more, at most the length of the
\* input, and on the first byte of a record or at the end of the input.
C23_ExactAlignment == \A c \in Calls : Aligned(c)

\* with an int of 64 bits C23 holds on every input of the model
C23_ExactAlignment64 == intSize = 64 => \A c \in Calls : Aligned(c)

\* a call has succeeded with its cursor at the end of an input of two
\* records, the first with a payload
C23_Witness64 ==
    /\ intSize = 64
    /\ pc[1] = "DONE"
    /\ Len(chunks) = 2
    /\ Len(chunks[1].Data) > 0
    /\ offset[1] = Len(data[1])

\* the step of call c passes the record at the cursor: the cursor advances
\* by 12 + length; a record of the preserve set is appended whole to the
\* buffer and the Result is left as it is; any other record leaves the
\* buffer as it is and changes Total and one bucket
KeepDropFrame(c) ==
    LET d == data[c]
        off == offset[c]
        t == Slice(d, off + 4, off + 8)
        length == chunkLength(d, off)
        size == 12 + length[2]
    IN (pc[c] = "ITERATING_RECORDS" /\ offset'[c] # offset[c]) =>
           /\ length[1] = 0
           /\ offset'[c] = off + size
           /\ IF t \in PreserveSet
              THEN /\ output'[c] = output[c] \o SubSeq(d, off + 1, off + size)
                   /\ result'[c] = result[c]
              ELSE /\ output'[c] = output[c]
                   /\ result'[c].Total = result[c].Total + size
                   /\ Cardinality({f \in {"TextChunks", "TimeChunk", "Background",
                                          "ExifData", "OtherChunks"} :
                                       result'[c][f] # result[c][f]}) = 1

\* C24: processing a record of a preserve-set type appends exactly its
\* 12 + length bytes to the output and leaves Total and the five buckets
\* unchanged; processing a record of any other type leaves the output
\* unchanged and changes only Total and one bucket; in both cases the cursor
\* advances by exactly 12 + length.
C24_KeepDropFrame == [][\A c \in Calls : KeepDropFrame(c)]_vars

\* with an int of 64 bits C24 holds on every input of the model
C24_KeepDropFrame64 == [][intSize = 64 => \A c \in Calls : KeepDropFrame(c)]_vars

\* a call has kept a record and dropped a record with a payload
C24_Witness64 ==
    /\ intSize = 64
    /\ Undamaged
    /\ pc[1] = "DONE"
    /\ Len(output[1]) > 8
    /\ result[1].Total > 12

\* C28: at every loop head the length of the buffer, signature included,
\* plus Total equals the cursor, and so equals the length of the input when
\* the call succeeds.
C28_LoopAccounting ==
    \A c \in Calls :
        /\ pc[c] = "ITERATING_RECORDS" =>
               Len(output[c]) + result[c].Total = offset[c]
        /\ pc[c] = "DONE" =>
               /\ offset[c] = Len(data[c])
               /\ Len(output[c]) + result[c].Total = Len(data[c])

\* a call is at the loop head after it has kept a record and dropped another
C28_Witness ==
    /\ pc[1] = "ITERATING_RECORDS"
    /\ Len(output[1]) > 8
    /\ result[1].Total > 0
    /\ offset[1] > 8

\* C25: no step of a call changes the bytes of its input, whether the call
\* succeeds or fails: the input of a call that was started stays what it
\* was, and the output is built in a buffer of its own.
C25_InputImmutable ==
    [][\A c \in Calls : pc[c] # "IDLE" => data'[c] = data[c]]_vars

\* a call has succeeded after it kept a record and dropped another, and its
\* input is still the container it was given
C25_Witness ==
    /\ wrapper.kind = "none"
    /\ pc[1] = "DONE"
    /\ ret[1].returned
    /\ Len(output[1]) > 8
    /\ result[1].Total > 0
    /\ output[1] # data[1]
    /\ data[1] = Mutate(createTestPNGWithChunks(chunks), mut)

\* C26: in every Result, under construction or returned, Total is the sum
\* of the five buckets, the six counters are 0 or more, and no step makes a
\* counter smaller.
C26_BucketSum ==
    [][\A c \in Calls :
         /\ result'[c].Total = result'[c].TextChunks + result'[c].TimeChunk
                                   + result'[c].Background + result'[c].ExifData
                                   + result'[c].OtherChunks
         /\ ret'[c].result.val.Total
                = ret'[c].result.val.TextChunks + ret'[c].result.val.TimeChunk
                      + ret'[c].result.val.Background + ret'[c].result.val.ExifData
                      + ret'[c].result.val.OtherChunks
         /\ \A f \in {"TextChunks", "TimeChunk", "Background", "ExifData",
                      "OtherChunks", "Total"} :
                /\ result[c][f] >= 0
                /\ result'[c][f] >= result[c][f]
                /\ ret'[c].result.val[f] >= 0]_vars

\* a call has returned a Result with two buckets counted
C26_Witness ==
    /\ pc[1] = "DONE"
    /\ ret[1].result.val.TextChunks > 0
    /\ ret[1].result.val.TimeChunk > 0
    /\ ret[1].result.val.Total
           = ret[1].result.val.TextChunks + ret[1].result.val.TimeChunk

\* C30: a call on the signature followed by zero or more well-formed
\* records with valid checksums succeeds whatever the types and their order;
\* it keeps the records of the preserve set and drops the others wherever
\* they stand, and on the bare signature it returns the signature and an
\* empty Result.
C30_NoStructure ==
    \A c \in Calls :
        (Ended(c) /\ WellFormed(data[c])) =>
            /\ pc[c] = "DONE"
            /\ ret[c].returned
            /\ ret[c].err = [msg |-> "nil", chunkType |-> <<>>, offset |-> 0]
            /\ RecordsOf(ret[c].output.bytes, 8)
                   = SelectSeq(RecordsOf(data[c], 8), IsPreserved)
            /\ Len(data[c]) = 8 =>
                   /\ ret[c].output.bytes = <<137, 80, 78, 71, 13, 10, 26, 10>>
                   /\ ret[c].result.val = EmptyResult

\* a call has succeeded on a container cut at the boundary between its two
\* records, so without the second
C30_Witness ==
    /\ mut.kind = "cut"
    /\ Len(chunks) = 2
    /\ mut.at = 20 + Len(chunks[1].Data)
    /\ pc[1] = "DONE"

\* a call has succeeded on the bare signature
C30_WitnessSignatureOnly ==
    /\ Len(data[1]) = 8
    /\ pc[1] = "DONE"

\* a call has kept a record that stands after IEND, in a container with
\* neither IHDR nor IDAT
C30_WitnessAfterIEND ==
    /\ Undamaged
    /\ Len(chunks) = 2
    /\ chunks[1].Type = IEND
    /\ chunks[2].Type = pHYs
    /\ pc[1] = "DONE"
    /\ ret[1].output.bytes = data[1]

\* an iteration of the loop that does not fail advances the cursor by 12
\* bytes or more, and not past the end of the input
Advances(c) ==
    (pc[c] = "ITERATING_RECORDS" /\ pc'[c] = "ITERATING_RECORDS"
         /\ offset'[c] # offset[c]) =>
        /\ offset'[c] >= offset[c] + 12
        /\ offset'[c] <= Len(data[c])

\* C29: every call that was started ends in DONE or ERROR, and every
\* iteration of the loop that does not fail advances the cursor by at least
\* 12 bytes without passing the end of the input, which bounds the number
\* of such iterations by (len(input) - 8) / 12.
C29_Termination ==
    /\ [][\A c \in Calls : Advances(c)]_vars
    /\ \A c \in Calls :
           pc[c] = "VALIDATING_SIGNATURE" ~> pc[c] \in {"DONE", "ERROR"}

\* with an int of 64 bits C29 holds on every input of the model
C29_Termination64 ==
    /\ [][intSize = 64 => \A c \in Calls : Advances(c)]_vars
    /\ \A c \in Calls :
           (intSize = 64 /\ pc[c] = "VALIDATING_SIGNATURE")
               ~> pc[c] \in {"DONE", "ERROR"}

\* both calls have ended, one of them after two iterations of the loop
C29_Witness64 ==
    /\ intSize = 64
    /\ pc[1] = "DONE"
    /\ offset[1] >= 32
    /\ pc[2] \in {"DONE", "ERROR"}

====
